---- MODULE Spec2Model ----
(***************************************************************************)
(* Model of the application layer of the counting demo (src/app.py):       *)
(* prompt-to-box conversion, keyword token filtering, prediction           *)
(* filtering, output labels and the configuration merge.                   *)
(*                                                                         *)
(* Strings are sequences of one-character strings, so that split() and     *)
(* strip() are computed character by character.  Python's None is the      *)
(* value None below.  Floats 2.0 / 3.0 are the integers 2 / 3, and         *)
(* confidences are expressed in thousandths (0.23 is 230).                 *)
(***************************************************************************)
EXTENDS Integers, Sequences, FiniteSets, TLC

VARIABLES pc, prompts, box_inputs, text, word_ids, keywords, ind_out,
          pred_logits, boxes_out, num_exemplars, out_label, cfg, args,
          build_out

vars == <<pc, prompts, box_inputs, text, word_ids, keywords, ind_out,
          pred_logits, boxes_out, num_exemplars, out_label, cfg, args,
          build_out>>

(***************************************************************************)
(* Bounds of the model.                                                    *)
(***************************************************************************)
MaxPrompts == 3
CoordMax == 2
MaxTextLen == 3
MaxKwLen == 3
MaxTokens == 2
PredTextLen == 1
PredKwLen == 1
NumInst == 2
MaxExemplars == 3
MaxCfgKeys == 3

None == -1
Letters == {"a", "b"}
Whitespace == {" "}
Comma == ","
TextChars == Letters \cup Whitespace
KwChars == Letters \cup Whitespace \cup {Comma}

SeqsUpTo(S, n) == UNION {[1..k -> S] : k \in 0..n}

Range(s) == {s[i] : i \in 1..Len(s)}

Last(s) == s[Len(s)]

(***************************************************************************)
(* Python string helpers.                                                  *)
(***************************************************************************)
\* str.split(): the maximal runs of non-whitespace characters, in order.
RECURSIVE SplitWsAcc(_, _, _, _)
SplitWsAcc(s, i, cur, acc) ==
    IF i > Len(s)
    THEN IF cur = <<>> THEN acc ELSE Append(acc, cur)
    ELSE IF s[i] \in Whitespace
         THEN SplitWsAcc(s, i + 1, <<>>,
                         IF cur = <<>> THEN acc ELSE Append(acc, cur))
         ELSE SplitWsAcc(s, i + 1, Append(cur, s[i]), acc)

SplitWs(s) == SplitWsAcc(s, 1, <<>>, <<>>)

\* str.split(","): the pieces between commas, empty pieces included.
RECURSIVE SplitCommaAcc(_, _, _, _)
SplitCommaAcc(s, i, cur, acc) ==
    IF i > Len(s)
    THEN Append(acc, cur)
    ELSE IF s[i] = Comma
         THEN SplitCommaAcc(s, i + 1, <<>>, Append(acc, cur))
         ELSE SplitCommaAcc(s, i + 1, Append(cur, s[i]), acc)

SplitComma(s) == SplitCommaAcc(s, 1, <<>>, <<>>)

\* str.strip(): leading and trailing whitespace removed.
RECURSIVE LStrip(_)
LStrip(s) ==
    IF s = <<>> THEN s
    ELSE IF Head(s) \in Whitespace THEN LStrip(Tail(s)) ELSE s

RECURSIVE RStrip(_)
RStrip(s) ==
    IF s = <<>> THEN s
    ELSE IF Last(s) \in Whitespace
         THEN RStrip(SubSeq(s, 1, Len(s) - 1))
         ELSE s

Strip(s) == RStrip(LStrip(s))

\* list.index(x, start) with 0-based positions; NotFound stands for the
\* ValueError that list.index raises.
NotFound == -1

ListIndex(lst, x, start) ==
    LET from == IF start >= 0 THEN start
                ELSE IF start + Len(lst) >= 0 THEN start + Len(lst) ELSE 0
        hits == {i \in from..(Len(lst) - 1) : lst[i + 1] = x}
    IN IF hits = {} THEN NotFound
       ELSE CHOOSE i \in hits : \A j \in hits : i <= j

(***************************************************************************)
(* get_box_inputs                                                          *)
(***************************************************************************)
IsBoxPromptAny(prompt) == prompt[3] = 2 \/ prompt[6] = 3

IsBoxPrompt(prompt) == prompt[3] = 2 /\ prompt[6] = 3

BoxOfSwapped(prompt) == <<prompt[1], prompt[2], prompt[5], prompt[4]>>

BoxOf(prompt) == <<prompt[1], prompt[2], prompt[4], prompt[5]>>

RECURSIVE BoxLoop(_, _, _)
BoxLoop(ps, i, acc) ==
    IF i > Len(ps) THEN acc
    ELSE BoxLoop(ps, i + 1,
                 IF IsBoxPrompt(ps[i]) THEN Append(acc, BoxOf(ps[i])) ELSE acc)

get_box_inputs(ps) == BoxLoop(ps, 1, <<>>)

(***************************************************************************)
(* get_ind_to_filter                                                       *)
(***************************************************************************)
NoKeywordsNever(kw) == Len(kw) < 0

NoKeywords(kw) == Len(kw) <= 0

StripAll(kws) == [i \in 1..Len(kws) |-> Strip(kws[i])]

SearchStart(word_inds) == Last(word_inds)

\* One iteration of the keyword loop: the error raised, or the word
\* position found and the offset the search started from.
KeywordStepLenient(input_words, keyword, word_inds) ==
    IF keyword \in Range(input_words)
    THEN IF Len(word_inds) <= 0
         THEN LET ind == ListIndex(input_words, keyword, 0)
              IN [err |-> "none", ind |-> ind, start |-> 0]
         ELSE LET start == SearchStart(word_inds)
                  ind == ListIndex(input_words, keyword, start)
              IN [err |-> IF ind = NotFound THEN "ValueError" ELSE "none",
                  ind |-> ind, start |-> start]
    ELSE [err |-> "none", ind |-> NotFound, start |-> 0]

KeywordStep(input_words, keyword, word_inds) ==
    IF keyword \in Range(input_words)
    THEN IF Len(word_inds) <= 0
         THEN LET ind == ListIndex(input_words, keyword, 0)
              IN [err |-> "none", ind |-> ind, start |-> 0]
         ELSE LET start == SearchStart(word_inds)
                  ind == ListIndex(input_words, keyword, start)
              IN [err |-> IF ind = NotFound THEN "ValueError" ELSE "none",
                  ind |-> ind, start |-> start]
    ELSE [err |-> "Exception", ind |-> NotFound, start |-> 0]

RECURSIVE KeywordLoop(_, _, _, _, _)
KeywordLoop(input_words, kws, k, word_inds, starts) ==
    IF k > Len(kws)
    THEN [err |-> "none", word_inds |-> word_inds, starts |-> starts]
    ELSE LET r == KeywordStep(input_words, kws[k], word_inds)
         IN IF r.err # "none"
            THEN [err |-> r.err, word_inds |-> word_inds, starts |-> starts]
            ELSE KeywordLoop(input_words, kws, k + 1,
                             Append(word_inds, r.ind), Append(starts, r.start))

TokenSelectedFirst(word_id, word_inds) ==
    word_inds # <<>> /\ word_id = word_inds[1]

TokenSelected(word_id, word_inds) == word_id \in Range(word_inds)

RECURSIVE FilterLoop(_, _, _, _)
FilterLoop(wids, word_inds, i, acc) ==
    IF i >= Len(wids) THEN acc
    ELSE FilterLoop(wids, word_inds, i + 1,
                    IF TokenSelected(wids[i + 1], word_inds)
                    THEN Append(acc, i) ELSE acc)

\* The outcome of a call: err is "none" when the call returns, and then
\* inds is the returned list; word_inds and starts record the matched word
\* positions and the search offsets of the keyword loop.
get_ind_to_filter(txt, wids, kw) ==
    IF NoKeywords(kw)
    THEN [err |-> "none", inds |-> [i \in 1..Len(wids) |-> i - 1],
          word_inds |-> <<>>, starts |-> <<>>]
    ELSE LET input_words == SplitWs(txt)
             kws == StripAll(SplitComma(kw))
             m == KeywordLoop(input_words, kws, 1, <<>>, <<>>)
         IN IF m.err # "none"
            THEN [err |-> m.err, inds |-> <<>>,
                  word_inds |-> m.word_inds, starts |-> m.starts]
            ELSE [err |-> "none",
                  inds |-> FilterLoop(wids, m.word_inds, 0, <<>>),
                  word_inds |-> m.word_inds, starts |-> m.starts]

(***************************************************************************)
(* get_boxes_from_prediction                                               *)
(***************************************************************************)
CONF_THRESH == 230

\* torch.sigmoid of a raw logit, in thousandths.
Sigmoid(x) ==
    CASE x = -3 -> 47
      [] x = -2 -> 119
      [] x = -1 -> 269
      [] x = 0 -> 500
      [] x = 1 -> 731
      [] x = 2 -> 881
      [] x = 3 -> 953

\* logits[:, ind_to_filter] after the sigmoid: one row per instance, one
\* column per selected token index.
SliceLogits(logits, inds) ==
    [i \in 1..Len(logits) |->
        [j \in 1..Len(inds) |-> Sigmoid(logits[i][inds[j] + 1])]]

CountAbove(row) == Cardinality({j \in 1..Len(row) : row[j] > CONF_THRESH})

RowMax(row) == CHOOSE m \in Range(row) : \A v \in Range(row) : v <= m

KeepAllAny(row, n) == CountAbove(row) > 0

KeepAll(row, n) == CountAbove(row) = n

KeepMax(row) == RowMax(row) > CONF_THRESH

\* tensor[box_mask, :]: the rows whose mask entry is true, in order.
RECURSIVE SelectRows(_, _, _, _)
SelectRows(rows, mask, i, acc) ==
    IF i > Len(rows) THEN acc
    ELSE SelectRows(rows, mask, i + 1,
                    IF mask[i] THEN Append(acc, rows[i]) ELSE acc)

\* The outcome of a call: err is "none" when the call returns, and then
\* boxes and logits are the two returned arrays.
get_boxes_from_prediction(wids, pred, pboxes, txt, kw) ==
    LET f == get_ind_to_filter(txt, wids, kw)
    IN IF f.err # "none"
       THEN [err |-> f.err, boxes |-> <<>>, logits |-> <<>>]
       ELSE LET logits == SliceLogits(pred, f.inds)
            IN IF Len(Strip(kw)) > 0
               THEN LET box_mask ==
                            [i \in 1..Len(logits) |->
                                KeepAll(logits[i], Len(f.inds))]
                    IN [err |-> "none",
                        boxes |-> SelectRows(pboxes, box_mask, 1, <<>>),
                        logits |-> SelectRows(logits, box_mask, 1, <<>>)]
               ELSE IF Len(f.inds) = 0
                    THEN \* max over a dimension of size zero
                         [err |-> "IndexError", boxes |-> <<>>,
                          logits |-> <<>>]
                    ELSE LET box_mask ==
                                 [i \in 1..Len(logits) |-> KeepMax(logits[i])]
                         IN [err |-> "none",
                             boxes |-> SelectRows(pboxes, box_mask, 1, <<>>),
                             logits |-> SelectRows(logits, box_mask, 1, <<>>)]

(***************************************************************************)
(* predict                                                                 *)
(***************************************************************************)
PredictKeywordsText(txt) == txt

PredictKeywords(txt) == <<>>

(***************************************************************************)
(* generate_output_label                                                   *)
(***************************************************************************)
HasTextLong(txt) == Len(Strip(txt)) > 1

HasText(txt) == Len(Strip(txt)) > 0

LabelPrefix == "Detected instances predicted with"
LabelNothing == "Nothing specified to detect."

\* The label as the sequence of the pieces the code concatenates.
generate_output_label(txt, n) ==
    IF HasText(txt)
    THEN IF n = 1
         THEN <<LabelPrefix, " text",
                " and " \o ToString(n) \o " visual exemplar.">>
         ELSE IF n > 1
              THEN <<LabelPrefix, " text",
                     " and " \o ToString(n) \o " visual exemplars.">>
              ELSE <<LabelPrefix, " text", ".">>
    ELSE IF n > 0
         THEN IF n = 1
              THEN <<LabelPrefix, " " \o ToString(n) \o " visual exemplar.">>
              ELSE <<LabelPrefix, " " \o ToString(n) \o " visual exemplars.">>
         ELSE <<LabelNothing>>

(***************************************************************************)
(* build_model_and_transforms: the merge of the configuration into args    *)
(***************************************************************************)
\* The attributes the argument parser defines, with their defaults.
ParsedArgs == [device |-> "cuda", options |-> "None",
               pretrain_model_path |-> "checkpoint_best_regular.pth"]

CollidesNever(k, args_vars) == FALSE

Collides(k, args_vars) == k \in DOMAIN args_vars

SetAttr(a, k, v) == [x \in DOMAIN a \cup {k} |-> IF x = k THEN v ELSE a[x]]

\* The loop over cfg_dict.items(); a configuration is a sequence of
\* <<key, value>> pairs with pairwise different keys.
RECURSIVE MergeLoop(_, _, _)
MergeLoop(c, i, a) ==
    IF i > Len(c) THEN [err |-> "none", key |-> "", args |-> a]
    ELSE IF ~Collides(c[i][1], a)
         THEN MergeLoop(c, i + 1, SetAttr(a, c[i][1], c[i][2]))
         ELSE [err |-> "ValueError", key |-> c[i][1], args |-> a]

(***************************************************************************)
(* Input domains.                                                          *)
(***************************************************************************)
\* A prompt is (x1, y1, flag1, x2, y2, flag2); the four coordinates of a
\* prompt are pairwise different, so that a swapped or dropped coordinate
\* shows.
Coords == 1..CoordMax
Flag1 == {1, 2}
Flag2 == {3, 4}
PromptSet == {<<c, c + 10, f1, c + 20, c + 30, f2>> :
                 c \in Coords, f1 \in Flag1, f2 \in Flag2}

TextSet == SeqsUpTo(TextChars, MaxTextLen)
KeywordSet == SeqsUpTo(KwChars, MaxKwLen)
WordIdVals == {None, 0, 1}
WordIdSet == SeqsUpTo(WordIdVals, MaxTokens)

\* Model outputs: the token-to-word alignment, and one raw logit per
\* instance and token (columns past the last token are never read).
PredTextSet == SeqsUpTo(TextChars, PredTextLen)
PredKeywordSet == SeqsUpTo(KwChars, PredKwLen)
PredWordIdSet == SeqsUpTo({None, 0}, MaxTokens)
LogitVals == {-2, -1}
LogitSet(ntok) == [1..NumInst -> [1..ntok -> LogitVals]]
pred_boxes == [i \in 1..NumInst |-> <<i, i + 10, 1, 1>>]
PredictPrompts == {<<>>, <<<<1, 11, 2, 21, 31, 3>>>>, <<<<1, 11, 1, 0, 0, 4>>>>}

CfgKeys == {"device", "options", "modelname", "text_encoder_type"}
CfgVals == {"v1", "v2"}
CfgSet == {c \in SeqsUpTo(CfgKeys \X CfgVals, MaxCfgKeys) :
              \A i, j \in 1..Len(c) : i # j => c[i][1] # c[j][1]}

NoOut == [err |-> "unset"]

(***************************************************************************)
(* Specification of get_box_inputs.                                        *)
(***************************************************************************)
InitBox ==
    /\ pc = "start"
    /\ prompts \in SeqsUpTo(PromptSet, MaxPrompts)
    /\ box_inputs = <<>>
    /\ text = <<>> /\ word_ids = <<>> /\ keywords = <<>> /\ ind_out = NoOut
    /\ pred_logits = <<>> /\ boxes_out = NoOut
    /\ num_exemplars = 0 /\ out_label = <<>>
    /\ cfg = <<>> /\ args = <<>> /\ build_out = NoOut

GetBoxInputs ==
    /\ pc = "start"
    /\ box_inputs' = get_box_inputs(prompts)
    /\ pc' = "done"
    /\ UNCHANGED <<prompts, text, word_ids, keywords, ind_out, pred_logits,
                   boxes_out, num_exemplars, out_label, cfg, args, build_out>>

NextBox == GetBoxInputs

SpecBox == InitBox /\ [][NextBox]_vars

(***************************************************************************)
(* Specification of get_ind_to_filter.                                     *)
(***************************************************************************)
InitInd ==
    /\ pc = "start"
    /\ text \in TextSet
    /\ word_ids \in WordIdSet
    /\ keywords \in KeywordSet
    /\ ind_out = NoOut
    /\ prompts = <<>> /\ box_inputs = <<>>
    /\ pred_logits = <<>> /\ boxes_out = NoOut
    /\ num_exemplars = 0 /\ out_label = <<>>
    /\ cfg = <<>> /\ args = <<>> /\ build_out = NoOut

GetIndToFilter ==
    /\ pc = "start"
    /\ ind_out' = get_ind_to_filter(text, word_ids, keywords)
    /\ pc' = "done"
    /\ UNCHANGED <<prompts, box_inputs, text, word_ids, keywords, pred_logits,
                   boxes_out, num_exemplars, out_label, cfg, args, build_out>>

NextInd == GetIndToFilter

SpecInd == InitInd /\ [][NextInd]_vars

(***************************************************************************)
(* Specification of get_boxes_from_prediction.                             *)
(***************************************************************************)
InitPred ==
    /\ pc = "start"
    /\ text \in PredTextSet
    /\ keywords \in PredKeywordSet
    /\ word_ids \in PredWordIdSet
    /\ pred_logits \in LogitSet(Len(word_ids))
    /\ ind_out = NoOut /\ boxes_out = NoOut
    /\ prompts = <<>> /\ box_inputs = <<>>
    /\ num_exemplars = 0 /\ out_label = <<>>
    /\ cfg = <<>> /\ args = <<>> /\ build_out = NoOut

GetBoxesFromPrediction ==
    /\ pc = "start"
    /\ ind_out' = get_ind_to_filter(text, word_ids, keywords)
    /\ boxes_out' = get_boxes_from_prediction(word_ids, pred_logits,
                                              pred_boxes, text, keywords)
    /\ pc' = "done"
    /\ UNCHANGED <<prompts, box_inputs, text, word_ids, keywords, pred_logits,
                   num_exemplars, out_label, cfg, args, build_out>>

NextPred == GetBoxesFromPrediction

SpecPred == InitPred /\ [][NextPred]_vars

(***************************************************************************)
(* Specification of predict.  The model is external: its output is any     *)
(* alignment and any logits.  The keywords local is unset until the call.  *)
(***************************************************************************)
Unset == <<"unset">>

InitPredict ==
    /\ pc = "start"
    /\ text \in PredTextSet
    /\ prompts \in PredictPrompts
    /\ word_ids \in PredWordIdSet
    /\ pred_logits \in LogitSet(Len(word_ids))
    /\ keywords = Unset
    /\ ind_out = NoOut /\ boxes_out = NoOut
    /\ box_inputs = <<>>
    /\ num_exemplars = 0 /\ out_label = <<>>
    /\ cfg = <<>> /\ args = <<>> /\ build_out = NoOut

Predict ==
    /\ pc = "start"
    /\ box_inputs' = get_box_inputs(prompts)
    /\ keywords' = PredictKeywords(text)
    /\ ind_out' = get_ind_to_filter(text, word_ids, keywords')
    /\ boxes_out' = get_boxes_from_prediction(word_ids, pred_logits,
                                              pred_boxes, text, keywords')
    /\ pc' = "done"
    /\ UNCHANGED <<prompts, text, word_ids, pred_logits, num_exemplars,
                   out_label, cfg, args, build_out>>

NextPredict == Predict

SpecPredict == InitPredict /\ [][NextPredict]_vars

(***************************************************************************)
(* Specification of generate_output_label.                                 *)
(***************************************************************************)
InitLabel ==
    /\ pc = "start"
    /\ text \in TextSet
    /\ num_exemplars \in 0..MaxExemplars
    /\ out_label = <<>>
    /\ word_ids = <<>> /\ keywords = <<>> /\ ind_out = NoOut
    /\ prompts = <<>> /\ box_inputs = <<>>
    /\ pred_logits = <<>> /\ boxes_out = NoOut
    /\ cfg = <<>> /\ args = <<>> /\ build_out = NoOut

GenerateOutputLabel ==
    /\ pc = "start"
    /\ out_label' = generate_output_label(text, num_exemplars)
    /\ pc' = "done"
    /\ UNCHANGED <<prompts, box_inputs, text, word_ids, keywords, ind_out,
                   pred_logits, boxes_out, num_exemplars, cfg, args,
                   build_out>>

NextLabel == GenerateOutputLabel

SpecLabel == InitLabel /\ [][NextLabel]_vars

(***************************************************************************)
(* Specification of the configuration merge of build_model_and_transforms. *)
(***************************************************************************)
InitBuild ==
    /\ pc = "start"
    /\ cfg \in CfgSet
    /\ args = ParsedArgs
    /\ build_out = NoOut
    /\ text = <<>> /\ word_ids = <<>> /\ keywords = <<>> /\ ind_out = NoOut
    /\ prompts = <<>> /\ box_inputs = <<>>
    /\ pred_logits = <<>> /\ boxes_out = NoOut
    /\ num_exemplars = 0 /\ out_label = <<>>

MergeConfig ==
    /\ pc = "start"
    /\ LET r == MergeLoop(cfg, 1, args)
       IN /\ args' = r.args
          /\ build_out' = [err |-> r.err, key |-> r.key]
    /\ pc' = "done"
    /\ UNCHANGED <<prompts, box_inputs, text, word_ids, keywords, ind_out,
                   pred_logits, boxes_out, num_exemplars, out_label, cfg>>

NextBuild == MergeConfig

SpecBuild == InitBuild /\ [][NextBuild]_vars

(***************************************************************************)
(* Properties.                                                             *)
(***************************************************************************)
Done == pc = "done"

Blank(s) == \A i \in 1..Len(s) : s[i] \in Whitespace

Ascending(s) == \A i, j \in 1..Len(s) : i < j => s[i] < s[j]

\* C1: get_box_inputs returns exactly one box <<x1, y1, x2, y2>> for each
\* prompt whose flags (prompt[2], prompt[5]) are (2.0, 3.0) and nothing for
\* any other prompt, in the order of the input and with the coordinates
\* prompt[0], prompt[1], prompt[3], prompt[4] unchanged; the empty list
\* gives the empty list.
C1_BoxPositions == {i \in 1..Len(prompts) :
                       prompts[i][3] = 2 /\ prompts[i][6] = 3}

C1_BoxInputsExact ==
    Done =>
        /\ Len(box_inputs) = Cardinality(C1_BoxPositions)
        /\ \A i \in C1_BoxPositions :
               LET r == Cardinality({j \in C1_BoxPositions : j <= i})
               IN box_inputs[r] = <<prompts[i][1], prompts[i][2],
                                    prompts[i][4], prompts[i][5]>>

C1_Witness ==
    /\ Done
    /\ Len(prompts) = 3
    /\ C1_BoxPositions = {1, 3}
    /\ prompts[2][3] = 2
    /\ prompts[1] # prompts[3]
    /\ Len(box_inputs) = 2

\* The keywords of the spec: comma-split, each piece trimmed.
SpecKeywords == StripAll(SplitComma(keywords))

TextWords == SplitWs(text)

\* C4: for a non-empty keyword spec on which get_ind_to_filter succeeds,
\* the result is exactly the token positions i in 0..len(word_ids)-1 whose
\* word_ids[i] is the word position matched for one of the keywords (a
\* position of the text that holds that keyword), in ascending order with
\* no position repeated.
C4_FilterExact ==
    (Done /\ keywords # <<>> /\ ind_out.err = "none") =>
        /\ Len(ind_out.word_inds) = Len(SpecKeywords)
        /\ \A k \in 1..Len(SpecKeywords) :
               /\ ind_out.word_inds[k] \in 0..(Len(TextWords) - 1)
               /\ TextWords[ind_out.word_inds[k] + 1] = SpecKeywords[k]
        /\ Ascending(ind_out.inds)
        /\ Range(ind_out.inds) =
               {i \in 0..(Len(word_ids) - 1) :
                   \E k \in 1..Len(ind_out.word_inds) :
                       word_ids[i + 1] = ind_out.word_inds[k]}

C4_Witness ==
    /\ Done
    /\ ind_out.err = "none"
    /\ Len(SpecKeywords) = 2
    /\ ind_out.word_inds = <<0, 1>>
    /\ word_ids = <<1, 0>>
    /\ ind_out.inds = <<0, 1>>

\* C5: for a keyword spec that contains, after comma-splitting and
\* trimming, a word that is not one of the whitespace-separated words of
\* the text, get_ind_to_filter raises an error and returns no index list,
\* whatever the other keywords and the word-id mapping are.
C5_AbsentKeyword ==
    /\ keywords # <<>>
    /\ \E k \in 1..Len(SpecKeywords) : SpecKeywords[k] \notin Range(TextWords)

C5_AbsentRaises ==
    (Done /\ C5_AbsentKeyword) =>
        /\ ind_out.err \in {"Exception", "ValueError"}
        /\ ind_out.inds = <<>>

C5_Witness ==
    /\ Done
    /\ C5_AbsentKeyword
    /\ Len(SpecKeywords) = 2
    /\ SpecKeywords[1] \in Range(TextWords)
    /\ word_ids # <<>>
    /\ ind_out.err = "Exception"

\* C6: for an empty keyword spec, get_ind_to_filter returns all indices
\* 0..len(word_ids)-1 in order, for every text and every word-id mapping,
\* and never raises.
C6_EmptySpecAll ==
    (Done /\ keywords = <<>>) =>
        /\ ind_out.err = "none"
        /\ Len(ind_out.inds) = Len(word_ids)
        /\ \A i \in 1..Len(word_ids) : ind_out.inds[i] = i - 1

C6_Witness ==
    /\ Done
    /\ keywords = <<>>
    /\ text # <<>>
    /\ word_ids = <<None, 0>>
    /\ ind_out.inds = <<0, 1>>

\* C9: in get_ind_to_filter, each keyword after the first is searched from
\* a starting offset strictly greater than the word position matched by
\* the previous keyword, so successive keywords are matched to strictly
\* increasing word positions and a keyword repeated in the spec is never
\* matched to the same word occurrence twice.
C9_StrictlyIncreasing ==
    (Done /\ keywords # <<>>) =>
        \A k \in 2..Len(ind_out.word_inds) :
            /\ ind_out.starts[k] > ind_out.word_inds[k - 1]
            /\ ind_out.word_inds[k] > ind_out.word_inds[k - 1]

\* Instance i is among the returned boxes.
Kept(i) == pred_boxes[i] \in Range(boxes_out.boxes)

Conf(i, j) == Sigmoid(pred_logits[i][j + 1])

\* C2: in get_boxes_from_prediction, with a non-empty keyword spec an
\* instance is kept if and only if its post-sigmoid confidence is strictly
\* greater than 0.23 for every one of the selected token indices; with no
\* keywords an instance is kept if and only if its maximum post-sigmoid
\* confidence over the allowed tokens is strictly greater than 0.23.
C2_KeepRule ==
    (Done /\ boxes_out.err = "none") =>
        \A i \in 1..NumInst :
            Kept(i) <=>
                IF keywords # <<>>
                THEN \A j \in Range(ind_out.inds) : Conf(i, j) > 230
                ELSE \E j \in Range(ind_out.inds) : Conf(i, j) > 230

C2_Witness ==
    /\ Done
    /\ boxes_out.err = "none"
    /\ keywords # <<>>
    /\ ind_out.inds = <<0, 1>>
    /\ Conf(1, 0) > 230 /\ Conf(1, 1) > 230
    /\ Conf(2, 0) > 230 /\ Conf(2, 1) < 230
    /\ boxes_out.boxes = <<pred_boxes[1]>>

\* C3: when every instance's confidence for every token is below the 0.23
\* threshold, get_boxes_from_prediction returns an empty box array, for
\* every keyword spec and every word-id mapping, including mappings in
\* which no token maps to a matched keyword.  Stated here for the calls
\* that return, on a model output with at least one token.
C3_AllBelow ==
    /\ word_ids # <<>>
    /\ \A i \in 1..NumInst : \A j \in 0..(Len(word_ids) - 1) : Conf(i, j) < 230

C3_AllBelowGivesEmpty ==
    (Done /\ C3_AllBelow /\ boxes_out.err = "none") => boxes_out.boxes = <<>>

\* C10: predict hands the model output to get_boxes_from_prediction with
\* an empty keyword spec, so the instances it returns are exactly those
\* whose maximum post-sigmoid confidence over all token indices exceeds
\* 0.23, and the keyword-absent error is never raised through predict.
C10_PredictNoKeywords ==
    Done =>
        /\ keywords = <<>>
        /\ boxes_out.err \notin {"Exception", "ValueError"}
        /\ boxes_out.err = "none" =>
               \A i \in 1..NumInst :
                   Kept(i) <=>
                       \E j \in 0..(Len(word_ids) - 1) : Conf(i, j) > 230

C10_Witness ==
    /\ Done
    /\ text = <<"a">>
    /\ Len(word_ids) = 2
    /\ Conf(1, 0) < 230 /\ Conf(1, 1) > 230
    /\ Conf(2, 0) < 230 /\ Conf(2, 1) < 230
    /\ boxes_out.err = "none"
    /\ boxes_out.boxes = <<pred_boxes[1]>>

\* C7: generate_output_label returns "Nothing specified to detect." only
\* when the text is empty or whitespace-only and the exemplar count is 0;
\* for every other (text, exemplar count) it returns a label starting with
\* "Detected instances predicted with".
C7_LabelRule ==
    Done =>
        /\ out_label = <<"Nothing specified to detect.">> =>
               (Blank(text) /\ num_exemplars = 0)
        /\ ~(Blank(text) /\ num_exemplars = 0) =>
               out_label[1] = "Detected instances predicted with"

C7_Witness ==
    /\ Done
    /\ text = <<" ", " ">>
    /\ num_exemplars = 0
    /\ out_label = <<"Nothing specified to detect.">>

\* The positions of the configuration whose key is an attribute of the
\* parsed arguments.
CollidingPositions == {i \in 1..Len(cfg) : cfg[i][1] \in DOMAIN ParsedArgs}

Copied(i) == cfg[i][1] \in DOMAIN args /\ args[cfg[i][1]] = cfg[i][2]

\* C8 as stated: any configuration key that collides with an attribute of
\* the parsed arguments is rejected with a configuration error, and every
\* non-colliding configuration key is copied onto the arguments with its
\* configured value.
C8_AllNonCollidingCopied ==
    Done =>
        /\ CollidingPositions # {} => build_out.err = "ValueError"
        /\ \A i \in 1..Len(cfg) : i \notin CollidingPositions => Copied(i)

\* C8 amended: a configuration with a colliding key is rejected with a
\* configuration error naming the first colliding key, and every
\* non-colliding key that precedes the first colliding key (every key,
\* when none collides) is copied onto the arguments with its configured
\* value; the parsed attributes keep their values.
C8_CopiedUpToCollision ==
    Done =>
        /\ CollidingPositions # {} =>
               /\ build_out.err = "ValueError"
               /\ \E i \in CollidingPositions :
                      /\ \A j \in CollidingPositions : i <= j
                      /\ build_out.key = cfg[i][1]
        /\ CollidingPositions = {} => build_out.err = "none"
        /\ \A i \in 1..Len(cfg) :
               (\A j \in CollidingPositions : i < j) => Copied(i)
        /\ \A k \in DOMAIN ParsedArgs : args[k] = ParsedArgs[k]

C8_Witness ==
    /\ Done
    /\ Len(cfg) = 3
    /\ CollidingPositions = {2}
    /\ build_out.err = "ValueError"
    /\ Copied(1)
    /\ ~Copied(3)

====
